---- MODULE Spec2Model ----
(***************************************************************************)
(* A model of the RAG service.  Its core is the text chunker               *)
(* (app/services/chunker.py): TextChunker.chunk_text with its helpers      *)
(* _clean_text and _adjust_to_sentence_boundary, run over a small          *)
(* byte-pair tokenizer.  Around it are the request handlers of             *)
(* app/api/routes (upload, query, delete) with the collaborators they      *)
(* call: parser, embedder, reranker, answer generator and vector store.    *)
(*                                                                         *)
(* A text is a sequence of characters, a character a one-character string  *)
(* (NUL stands for the control character \x00).  A token is the sequence   *)
(* of characters it decodes to; the alphabet is ASCII, so decoding a slice *)
(* of tokens is the concatenation of the tokens.                           *)
(***************************************************************************)
EXTENDS Integers, Sequences, FiniteSets, TLC

VARIABLES
    input,          \* the argument of chunk_text
    chunk_size,     \* settings.chunk_size
    chunk_overlap,  \* settings.chunk_overlap
    pc,             \* where chunk_text is: "call", "loop" or "done"
    text,           \* the local text, after _clean_text
    tokens,         \* tokenizer.encode(text)
    start,          \* the cursor of the sliding window
    chunk_index,    \* the running chunk index
    chunks,         \* the list being returned
    windows,        \* per loop iteration: the window [start, end) and its texts
    encode_calls,   \* how many times tokenizer.encode was called
    snap_in,        \* the argument of one _adjust_to_sentence_boundary call
    snap_out,       \* its result
    hpc,            \* where the request handler is ("off": no service running)
    collection,     \* whether the Qdrant collection exists
    points,         \* the payloads of the points of the collection, in upsert order
    uuids,          \* how many document ids uuid4() has produced
    served,         \* how many requests have been accepted
    request,        \* the request being handled
    locals,         \* the local variables of the handler
    calls,          \* the collaborator calls of this request, in order
    response,       \* the response to the request
    peer            \* a second handler, of a concurrent DELETE: its position,
                    \* request, counted chunks and response

chunkerVars == << input, chunk_size, chunk_overlap, pc, text, tokens, start,
                  chunk_index, chunks, windows, encode_calls, snap_in, snap_out >>

apiVars == << hpc, collection, points, uuids, served, request, locals, calls,
              response, peer >>

vars == << input, chunk_size, chunk_overlap, pc, text, tokens, start,
           chunk_index, chunks, windows, encode_calls, snap_in, snap_out,
           hpc, collection, points, uuids, served, request, locals, calls,
           response, peer >>

(***************************************************************************)
(* Bounds of the model.                                                    *)
(***************************************************************************)
MaxFrags == 4       \* an input text is at most this many fragments
MaxS == 3           \* chunk_size ranges over 1..MaxS
MaxO == 2           \* chunk_overlap ranges over 0..MaxO
MaxSnapLen == 6     \* the strings _adjust_to_sentence_boundary is applied to alone
MaxCleanLen == 5    \* the strings _clean_text is applied to alone
MaxDocFrags == 2    \* a parsed document is at most this many fragments
MaxRequests == 2    \* requests served in one run of the service

\* A fragment is at most two tokens, and a run whose cursor advances emits at
\* most one chunk per token; a run that does not advance is cut here.
MaxChunks == 2 * MaxFrags + 1

(***************************************************************************)
(* Characters and their classes.                                           *)
(***************************************************************************)
NUL == "NUL"
Letters == {"a"}
Newlines == {"\n"}
Spaces == {" ", "\n", "\t"}
Controls == {NUL}
Puncts == {".", "!", "?", NUL}

Min(S) == CHOOSE x \in S : \A y \in S : x <= y
Max(S) == CHOOSE x \in S : \A y \in S : x >= y

RECURSIVE Flatten(_)
Flatten(ss) == IF ss = <<>> THEN <<>> ELSE Head(ss) \o Flatten(Tail(ss))

\* The characters of t at the indices in keep, in order.
RECURSIVE Pick(_, _, _)
Pick(t, keep, i) ==
    IF i > Len(t) THEN <<>>
    ELSE (IF i \in keep THEN << t[i] >> ELSE <<>>) \o Pick(t, keep, i + 1)

\* How many consecutive characters of t, from index i on, are in cls.
RunLen(t, i, cls) ==
    LET stops == {j \in i..Len(t) : t[j] \notin cls}
    IN IF stops = {} THEN Len(t) - i + 1 ELSE Min(stops) - i

\* How many consecutive characters of t, right before index i, are in cls.
RunBefore(t, i, cls) ==
    LET stops == {j \in 1..(i - 1) : t[j] \notin cls}
    IN IF stops = {} THEN i - 1 ELSE i - 1 - Max(stops)

(***************************************************************************)
(* Python's str.strip() and list slicing.                                  *)
(***************************************************************************)
Strip(t) ==
    LET solid == {j \in 1..Len(t) : t[j] \notin Spaces}
    IN IF solid = {} THEN <<>> ELSE SubSeq(t, Min(solid), Max(solid))

\* s[a:b] with Python's rules: a negative index counts from the end, and
\* both ends are clamped to the sequence.
PySlice(s, a, b) ==
    LET n == Len(s)
        norm(k) == IF k < 0 THEN (IF k + n < 0 THEN 0 ELSE k + n)
                   ELSE (IF k > n THEN n ELSE k)
    IN SubSeq(s, norm(a) + 1, norm(b))

(***************************************************************************)
(* _clean_text: three re.sub passes, in this order, and a strip.           *)
(***************************************************************************)
\* re.sub of c{least,} by `most` copies of c: every maximal run of at least
\* `least` characters c keeps its first `most`.
CollapseRuns(t, c, least, most) ==
    LET run(i) == RunBefore(t, i, {c}) + RunLen(t, i, {c})
        keep == {i \in 1..Len(t) :
                    ~(t[i] = c /\ run(i) >= least /\ RunBefore(t, i, {c}) >= most)}
    IN Pick(t, keep, 1)

RemoveControls(t) == Pick(t, {i \in 1..Len(t) : t[i] \notin Controls}, 1)

clean_text(t) ==
    Strip(RemoveControls(CollapseRuns(CollapseRuns(t, "\n", 3, 2), " ", 2, 1)))

(***************************************************************************)
(* The tokenizer: tiktoken's scheme (a regular expression splits the text  *)
(* into pieces, byte-pair merging encodes each piece) over a small         *)
(* vocabulary.  Every single character is a token; Vocab lists the         *)
(* longer tokens, a token's rank being its place in the list.              *)
(***************************************************************************)
Vocab == <<
    << " ", "a" >>,
    << "a", "a" >>,
    << "\n", "\n" >>,
    << ".", "\n" >>,
    << " ", " " >>,
    << ".", "." >>,
    << " ", "." >>,
    << ".", "\n", "\n" >>,
    << " ", "a", "a" >>,
    << "a", "a", "a", "a" >>,
    << ".", "a" >>,
    << "!", "\n" >>,
    << "?", "\n" >>,
    << " ", "\n" >>,
    << ".", ".", "." >>,
    << "!", "!" >>,
    << "\t", "\t" >>
>>

\* 0 for a single character, the place in Vocab for a longer token, and -1
\* for a string that is no token.
Rank(tok) ==
    IF Len(tok) = 1 THEN 0
    ELSE LET at == {k \in 1..Len(Vocab) : Vocab[k] = tok}
         IN IF at = {} THEN -1 ELSE Min(at)

\* The length of the piece the pattern matches at index i of t.  The
\* alternatives, tried in order (contractions and digits are outside the
\* alphabet):
\*    [^\r\n\p{L}\p{N}]?\p{L}+      ?[^\s\p{L}\p{N}]+[\r\n]*
\*    \s*[\r\n]+      \s+(?!\S)      \s+
PieceLen(t, i) ==
    LET c == t[i]
        n == Len(t)
    IN IF c \in Letters THEN RunLen(t, i, Letters)
       ELSE IF c \notin Newlines /\ i < n /\ t[i + 1] \in Letters
            THEN 1 + RunLen(t, i + 1, Letters)
       ELSE IF c \in Puncts
            THEN LET p == RunLen(t, i, Puncts)
                 IN p + RunLen(t, i + p, Newlines)
       ELSE IF c = " " /\ i < n /\ t[i + 1] \in Puncts
            THEN LET p == RunLen(t, i + 1, Puncts)
                 IN 1 + p + RunLen(t, i + 1 + p, Newlines)
       ELSE LET w == RunLen(t, i, Spaces)
                nl == {j \in i..(i + w - 1) : t[j] \in Newlines}
            IN IF nl # {} THEN Max(nl) - i + 1
               ELSE IF i + w > n THEN w
               ELSE IF w >= 2 THEN w - 1
               ELSE w

\* Byte-pair merging: while two neighbours concatenate to a token, merge the
\* pair of lowest rank, the leftmost of them.
RECURSIVE BytePairMerge(_)
BytePairMerge(parts) ==
    LET pair(i) == parts[i] \o parts[i + 1]
        cands == {i \in 1..(Len(parts) - 1) : Rank(pair(i)) > 0}
    IN IF cands = {} THEN parts
       ELSE LET best == CHOOSE i \in cands : \A j \in cands :
                            \/ Rank(pair(i)) < Rank(pair(j))
                            \/ Rank(pair(i)) = Rank(pair(j)) /\ i <= j
            IN BytePairMerge(SubSeq(parts, 1, best - 1) \o << pair(best) >>
                             \o SubSeq(parts, best + 2, Len(parts)))

EncodePiece(piece) ==
    IF Rank(piece) >= 0 THEN << piece >>
    ELSE BytePairMerge([k \in 1..Len(piece) |-> << piece[k] >>])

RECURSIVE EncodeFrom(_, _)
EncodeFrom(t, i) ==
    IF i > Len(t) THEN <<>>
    ELSE LET m == PieceLen(t, i)
         IN EncodePiece(SubSeq(t, i, i + m - 1)) \o EncodeFrom(t, i + m)

encode(t) == EncodeFrom(t, 1)

decode(toks) == Flatten(toks)

(***************************************************************************)
(* _adjust_to_sentence_boundary.                                           *)
(***************************************************************************)
sentence_endings == <<
    << "." >>, << "!" >>, << "?" >>,
    << ".", "\n" >>, << "!", "\n" >>, << "?", "\n" >> >>

\* int(len(text) * 0.8)
Cutoff(n) == (4 * n) \div 5

\* str.rfind: the highest 0-based index where sub occurs in s, or -1.
rfind(s, sub) ==
    LET at == {p \in 0..(Len(s) - Len(sub)) : SubSeq(s, p + 1, p + Len(sub)) = sub}
    IN IF at = {} THEN -1 ELSE Max(at)

\* The for loop over sentence_endings, from its k-th ending on; acc is
\* (last_ending, ending_len).
RECURSIVE FindEnding(_, _, _)
FindEnding(end_portion, k, acc) ==
    IF k > Len(sentence_endings) THEN acc
    ELSE LET ending == sentence_endings[k]
             pos == rfind(end_portion, ending)
         IN FindEnding(end_portion, k + 1,
                       IF pos > acc[1] THEN << pos, Len(ending) >> ELSE acc)

\* Mutant: the cut is taken from end_portion instead of text.
adjust_to_sentence_boundary_Tail(t) ==
    LET cutoff == Cutoff(Len(t))
        end_portion == SubSeq(t, cutoff + 1, Len(t))
        found == FindEnding(end_portion, 1, << -1, 0 >>)
    IN IF found[1] # -1 THEN SubSeq(end_portion, 1, found[1] + found[2])
       ELSE t

adjust_to_sentence_boundary(t) ==
    LET cutoff == Cutoff(Len(t))
        end_portion == SubSeq(t, cutoff + 1, Len(t))
        found == FindEnding(end_portion, 1, << -1, 0 >>)
    IN IF found[1] # -1 THEN SubSeq(t, 1, cutoff + found[1] + found[2])
       ELSE t

\* The length of the terminator the call snapped to, 0 when it found none.
EndingUsed(t) ==
    LET cutoff == Cutoff(Len(t))
    IN FindEnding(SubSeq(t, cutoff + 1, Len(t)), 1, << -1, 0 >>)[2]

(***************************************************************************)
(* chunk_text as a state machine: the call, then one step per iteration of *)
(* the sliding-window loop.                                                *)
(***************************************************************************)
\* The fragments input texts are made of.
Lexicon == { << "a" >>, << "a", "a", "a", "a", "." >>, << " " >>, << "\n" >>,
             << NUL >> }

Texts == UNION { { Flatten(f) : f \in [1..k -> Lexicon] } : k \in 0..MaxFrags }

TextChunk(content, index, token_count) ==
    [content |-> content, index |-> index, token_count |-> token_count]

total_tokens == Len(tokens)

\* Mutant: `if not text`, the strip forgotten.
IsBlank_NoStrip(t) == t = <<>>

\* if not text.strip()
IsBlank(t) == Strip(t) = <<>>

\* Mutant: token_count counts characters, not tokens.
SingleChunk_CharCount(cleaned, toks) == << TextChunk(cleaned, 0, Len(cleaned)) >>

\* return [TextChunk(content=text, index=0, token_count=total_tokens)]
SingleChunk(cleaned, toks) == << TextChunk(cleaned, 0, Len(toks)) >>

\* Mutant: the window end is not clamped to the token count.
WindowEnd_NoClamp(s, size, total) == s + size

\* Mutant: the window is one token too long.
WindowEnd_OffByOne(s, size, total) == Min({s + size + 1, total})

\* end = min(start + chunk_size, total_tokens)
WindowEnd(s, size, total) == Min({s + size, total})

\* Mutant: the overlap is subtracted after the final window too.
NextStart_AlwaysOverlap(e, overlap, total) == e - overlap

\* Mutant: the overlap is added instead of subtracted.
NextStart_PlusOverlap(e, overlap, total) == IF e < total THEN e + overlap ELSE total

\* start = end - overlap if end < total_tokens else total_tokens
NextStart(e, overlap, total) == IF e < total THEN e - overlap ELSE total

\* Mutant: the increment of chunk_index is forgotten.
NextIndex_Stuck(i) == i

\* chunk_index += 1
NextIndex(i) == i + 1

\* token_count=len(self.tokenizer.encode(chunk_text))
TokenCount(chunk_text) == Len(encode(chunk_text))

\* No handler has a request, its locals are unset and nothing was answered.
NoRequest == [kind |-> "none"]

NoLocals ==
    [ chunk_texts |-> <<>>, embed_i |-> 0, embeddings |-> <<>>,
      document_id |-> 0, pending |-> <<>>, upsert_i |-> 0,
      search_results |-> <<>>, sources |-> <<>>, chunks_to_delete |-> 0 ]

NoResponse == [status |-> 0, detail |-> "", body |-> [kind |-> "none"]]

\* The second handler before its request.
NoPeer ==
    [ hpc |-> "idle", request |-> NoRequest, chunks_to_delete |-> 0,
      response |-> NoResponse ]

\* The chunker used as a library: no application, no store, no request.
ServiceOff ==
    /\ hpc = "off"
    /\ collection = FALSE
    /\ points = <<>>
    /\ uuids = 0
    /\ served = 0
    /\ request = NoRequest
    /\ locals = NoLocals
    /\ calls = <<>>
    /\ response = NoResponse
    /\ peer = NoPeer

Init ==
    /\ ServiceOff
    /\ input \in Texts
    /\ chunk_size \in 1..MaxS
    /\ chunk_overlap \in 0..MaxO
    /\ pc = "call"
    /\ text = <<>>
    /\ tokens = <<>>
    /\ start = 0
    /\ chunk_index = 0
    /\ chunks = <<>>
    /\ windows = <<>>
    /\ encode_calls = 0
    /\ snap_in = <<>>
    /\ snap_out = <<>>

\* if not text.strip(): return []
ReturnEmpty ==
    /\ pc = "call"
    /\ IsBlank(input)
    /\ pc' = "done"
    /\ chunks' = <<>>
    /\ UNCHANGED << input, chunk_size, chunk_overlap, text, tokens, start,
                    chunk_index, windows, encode_calls, snap_in, snap_out >>
    /\ UNCHANGED apiVars

\* The text fits in a single chunk.
ReturnSingle ==
    /\ pc = "call"
    /\ ~IsBlank(input)
    /\ LET cleaned == clean_text(input)
           toks == encode(cleaned)
       IN /\ Len(toks) <= chunk_size
          /\ text' = cleaned
          /\ tokens' = toks
          /\ chunks' = SingleChunk(cleaned, toks)
    /\ encode_calls' = encode_calls + 1
    /\ pc' = "done"
    /\ UNCHANGED << input, chunk_size, chunk_overlap, start, chunk_index,
                    windows, snap_in, snap_out >>
    /\ UNCHANGED apiVars

\* The text does not fit: enter the sliding-window loop.
EnterLoop ==
    /\ pc = "call"
    /\ ~IsBlank(input)
    /\ LET cleaned == clean_text(input)
           toks == encode(cleaned)
       IN /\ Len(toks) > chunk_size
          /\ text' = cleaned
          /\ tokens' = toks
    /\ encode_calls' = encode_calls + 1
    /\ chunks' = <<>>
    /\ start' = 0
    /\ chunk_index' = 0
    /\ pc' = "loop"
    /\ UNCHANGED << input, chunk_size, chunk_overlap, windows, snap_in, snap_out >>
    /\ UNCHANGED apiVars

\* One iteration of `while start < total_tokens`.
LoopIteration ==
    /\ pc = "loop"
    /\ start < total_tokens
    /\ Len(chunks) < MaxChunks
    /\ LET end == WindowEnd(start, chunk_size, total_tokens)
           chunk_tokens == PySlice(tokens, start, end)
           decoded == decode(chunk_tokens)
           chunk_text == IF end < total_tokens
                         THEN adjust_to_sentence_boundary(decoded)
                         ELSE decoded
       IN /\ chunks' = Append(chunks,
                         TextChunk(Strip(chunk_text), chunk_index, TokenCount(chunk_text)))
          /\ windows' = Append(windows,
                         [start |-> start, end |-> end, decoded |-> decoded,
                          chunk_text |-> chunk_text,
                          ending_len |-> IF end < total_tokens
                                         THEN EndingUsed(decoded) ELSE 0])
          /\ start' = NextStart(end, chunk_overlap, total_tokens)
    /\ chunk_index' = NextIndex(chunk_index)
    /\ encode_calls' = encode_calls + 1
    /\ UNCHANGED << input, chunk_size, chunk_overlap, pc, text, tokens,
                    snap_in, snap_out >>
    /\ UNCHANGED apiVars

\* The loop condition fails: return chunks.
LoopExit ==
    /\ pc = "loop"
    /\ ~(start < total_tokens)
    /\ pc' = "done"
    /\ UNCHANGED << input, chunk_size, chunk_overlap, text, tokens, start,
                    chunk_index, chunks, windows, encode_calls, snap_in, snap_out >>
    /\ UNCHANGED apiVars

Next == ReturnEmpty \/ ReturnSingle \/ EnterLoop \/ LoopIteration \/ LoopExit

Spec == Init /\ [][Next]_vars

(***************************************************************************)
(* _adjust_to_sentence_boundary alone, on every string up to MaxSnapLen    *)
(* over the characters it tells apart.                                     *)
(***************************************************************************)
SnapAlphabet == {"a", ".", "!", "?", "\n"}

SnapStrings == UNION { [1..k -> SnapAlphabet] : k \in 0..MaxSnapLen }

InitSnap ==
    /\ ServiceOff
    /\ snap_in \in SnapStrings
    /\ snap_out = <<>>
    /\ pc = "snap"
    /\ input = <<>>
    /\ chunk_size = 1
    /\ chunk_overlap = 0
    /\ text = <<>>
    /\ tokens = <<>>
    /\ start = 0
    /\ chunk_index = 0
    /\ chunks = <<>>
    /\ windows = <<>>
    /\ encode_calls = 0

AdjustCall ==
    /\ pc = "snap"
    /\ snap_out' = adjust_to_sentence_boundary(snap_in)
    /\ pc' = "snapped"
    /\ UNCHANGED << input, chunk_size, chunk_overlap, text, tokens, start,
                    chunk_index, chunks, windows, encode_calls, snap_in >>
    /\ UNCHANGED apiVars

NextSnap == AdjustCall

SpecSnap == InitSnap /\ [][NextSnap]_vars

(***************************************************************************)
(* _clean_text alone, on every string up to MaxCleanLen over a letter, the *)
(* two characters whose runs it collapses and a control character.         *)
(***************************************************************************)
CleanAlphabet == {"a", " ", "\n", NUL}

CleanStrings == UNION { [1..k -> CleanAlphabet] : k \in 0..MaxCleanLen }

InitClean ==
    /\ ServiceOff
    /\ input \in CleanStrings
    /\ text = <<>>
    /\ pc = "clean"
    /\ chunk_size = 1
    /\ chunk_overlap = 0
    /\ tokens = <<>>
    /\ start = 0
    /\ chunk_index = 0
    /\ chunks = <<>>
    /\ windows = <<>>
    /\ encode_calls = 0
    /\ snap_in = <<>>
    /\ snap_out = <<>>

\* text = self._clean_text(text)
CleanCall ==
    /\ pc = "clean"
    /\ text' = clean_text(input)
    /\ pc' = "cleaned"
    /\ UNCHANGED << input, chunk_size, chunk_overlap, tokens, start, chunk_index,
                    chunks, windows, encode_calls, snap_in, snap_out >>
    /\ UNCHANGED apiVars

NextClean == CleanCall

SpecClean == InitClean /\ [][NextClean]_vars

(***************************************************************************)
(* The service: the application start-up (app/main.py), the handlers of    *)
(* app/api/routes/documents.py and query.py, and the collaborators they    *)
(* call.  A handler is cut into steps at its collaborator calls; each call *)
(* either returns or raises.  Relevance is not modelled: a search returns  *)
(* the stored points in upsert order, a rerank the first documents.        *)
(***************************************************************************)
max_file_size_mb == 50
search_top_k == 50
rerank_top_k == 12

\* The code embeds in batches of 128 and upserts in batches of 100; the model
\* scales both, so that a document of a few chunks spans several batches.
embed_batch_size == 3
upsert_batch_size == 2

allowed_extensions == {".pdf", ".docx"}

Filenames == {"", "test.txt", "Test.PDF", "notes.docx"}

\* Path(file.filename).suffix.lower()
suffix_lower(filename) ==
    CASE filename = "test.txt" -> ".txt"
      [] filename = "Test.PDF" -> ".pdf"
      [] filename = "notes.docx" -> ".docx"
      [] OTHER -> ""

\* max_size = settings.max_file_size_mb * 1024 * 1024
max_size == max_file_size_mb * 1024 * 1024

\* len(content) of the uploads tried: empty, at the limit, beyond it.
Sizes == {0, max_size, max_size + 1}

\* What parser.parse can extract from a document: nothing, white space,
\* control characters, sentences.
DocLexicon == { << " " >>, << NUL >>, << "a", "a", "a", "a", "." >> }

DocTexts == UNION { { Flatten(f) : f \in [1..k -> DocLexicon] } : k \in 0..MaxDocFrags }

\* One collaborator call and whether it returned (ok) or raised.
Call(op, ok) == [op |-> op, ok |-> ok]

ErrorBody == [kind |-> "error"]

\* The HTTPException of the generic `except Exception` of each handler.
ProcessingError ==
    [ status |-> 500,
      detail |-> CASE request.kind = "upload" -> "Failed to process document"
                   [] request.kind = "delete" -> "Failed to delete document"
                   [] OTHER -> "Failed to process query",
      body |-> ErrorBody ]

HTTPException(status_code, detail) ==
    [status |-> status_code, detail |-> detail, body |-> ErrorBody]

InitApi ==
    /\ hpc = "boot"
    /\ collection = FALSE
    /\ points = <<>>
    /\ uuids = 0
    /\ served = 0
    /\ request = NoRequest
    /\ locals = NoLocals
    /\ calls = <<>>
    /\ response = NoResponse
    /\ peer = NoPeer
    /\ chunk_size \in {1, 2}
    /\ chunk_overlap = 0
    /\ pc = "idle"
    /\ input = <<>>
    /\ text = <<>>
    /\ tokens = <<>>
    /\ start = 0
    /\ chunk_index = 0
    /\ chunks = <<>>
    /\ windows = <<>>
    /\ encode_calls = 0
    /\ snap_in = <<>>
    /\ snap_out = <<>>

\* lifespan: ensure_collection at start-up; its failure is only logged.
Lifespan ==
    /\ hpc = "boot"
    /\ \E ok \in BOOLEAN : collection' = (collection \/ ok)
    /\ hpc' = "idle"
    /\ UNCHANGED << points, uuids, served, request, locals, calls, response >>
    /\ UNCHANGED chunkerVars
    /\ UNCHANGED peer

\* An upload that ensures the collection before it embeds.
NextStep_EnsureFirst(kind, step) ==
    CASE kind = "upload" /\ step = "validate" -> "parse"
      [] kind = "upload" /\ step = "parse" -> "chunk"
      [] kind = "upload" /\ step = "chunk" -> "ensure"
      [] kind = "upload" /\ step = "ensure" -> "embed"
      [] kind = "upload" /\ step = "embed" -> "store"
      [] kind = "upload" /\ step = "store" -> "upsert"
      [] kind = "query" /\ step = "embed_query" -> "ensure"
      [] kind = "query" /\ step = "ensure" -> "search"
      [] kind = "query" /\ step = "search" -> "rerank"
      [] kind = "query" /\ step = "rerank" -> "generate"
      [] kind = "delete" /\ step = "count" -> "delete"
      [] OTHER -> "idle"

\* The order of the steps of a pipeline: the step that follows `step`.
NextStep(kind, step) ==
    CASE kind = "upload" /\ step = "validate" -> "parse"
      [] kind = "upload" /\ step = "parse" -> "chunk"
      [] kind = "upload" /\ step = "chunk" -> "embed"
      [] kind = "upload" /\ step = "embed" -> "ensure"
      [] kind = "upload" /\ step = "ensure" -> "store"
      [] kind = "upload" /\ step = "store" -> "upsert"
      [] kind = "query" /\ step = "embed_query" -> "ensure"
      [] kind = "query" /\ step = "ensure" -> "search"
      [] kind = "query" /\ step = "search" -> "rerank"
      [] kind = "query" /\ step = "rerank" -> "generate"
      [] kind = "delete" /\ step = "count" -> "delete"
      [] OTHER -> "idle"

\* The empty-file check left out.
ValidateUpload_NoEmptyCheck(filename, size) ==
    LET extension == suffix_lower(filename)
    IN IF filename = ""
       THEN HTTPException(400, "Filename is required")
       ELSE IF extension \notin allowed_extensions
       THEN HTTPException(400, "File type not supported")
       ELSE IF size > max_size
       THEN HTTPException(413, "File exceeds maximum size")
       ELSE NoResponse

\* The checks of upload_document before its try block: the exception they
\* raise, or NoResponse when the upload passes them.
ValidateUpload(filename, size) ==
    LET extension == suffix_lower(filename)
    IN IF filename = ""
       THEN HTTPException(400, "Filename is required")
       ELSE IF extension \notin allowed_extensions
       THEN HTTPException(400, "File type not supported")
       ELSE IF size = 0
       THEN HTTPException(400, "Uploaded file is empty")
       ELSE IF size > max_size
       THEN HTTPException(413, "File exceeds maximum size")
       ELSE NoResponse

\* upload_document up to the try block: the request arrives and is validated.
UploadValidate ==
    /\ hpc = "idle"
    /\ served < MaxRequests
    /\ \E filename \in Filenames, size \in Sizes :
         LET refused == ValidateUpload(filename, size)
         IN /\ request' = [kind |-> "upload", filename |-> filename, size |-> size]
            /\ response' = refused
            /\ hpc' = IF refused = NoResponse
                      THEN NextStep("upload", "validate") ELSE "idle"
    /\ served' = served + 1
    /\ calls' = <<>>
    /\ locals' = NoLocals
    /\ UNCHANGED << collection, points, uuids >>
    /\ UNCHANGED chunkerVars
    /\ UNCHANGED peer

\* Only the empty string counts as blank.
BlankText_NoStrip(parsed) == parsed = <<>>

\* if not text.strip()
BlankText(parsed) == Strip(parsed) = <<>>

\* Step 1, parser.parse, the blank-text check, and the call of chunk_text.
UploadParse ==
    /\ hpc = "parse"
    /\ \E ok \in BOOLEAN, parsed \in DocTexts :
         IF ~ok
         THEN /\ calls' = Append(calls, Call("parse", FALSE))
              /\ response' = ProcessingError
              /\ hpc' = "idle"
              /\ UNCHANGED << input, pc >>
         ELSE IF BlankText(parsed)
         THEN /\ calls' = Append(calls, Call("parse", TRUE))
              /\ response' = HTTPException(400, "No text could be extracted from the document")
              /\ hpc' = "idle"
              /\ UNCHANGED << input, pc >>
         ELSE /\ calls' = calls \o << Call("parse", TRUE), Call("chunk_text", TRUE) >>
              /\ input' = parsed
              /\ pc' = "call"
              /\ hpc' = NextStep("upload", "parse")
              /\ UNCHANGED response
    /\ UNCHANGED << collection, points, uuids, served, request, locals >>
    /\ UNCHANGED << chunk_size, chunk_overlap, text, tokens, start, chunk_index,
                    chunks, windows, encode_calls, snap_in, snap_out >>
    /\ UNCHANGED peer

\* chunk_text has returned: the zero-chunk check, and chunk_texts.
UploadChunked ==
    /\ hpc = "chunk"
    /\ pc = "done"
    /\ IF chunks = <<>>
       THEN /\ response' = HTTPException(400, "Document produced no valid chunks")
            /\ hpc' = "idle"
            /\ UNCHANGED locals
       ELSE /\ locals' = [locals EXCEPT
                            !.chunk_texts = [i \in 1..Len(chunks) |-> chunks[i].content]]
            /\ hpc' = NextStep("upload", "chunk")
            /\ UNCHANGED response
    /\ pc' = "idle"
    /\ input' = <<>>
    /\ text' = <<>>
    /\ tokens' = <<>>
    /\ start' = 0
    /\ chunk_index' = 0
    /\ chunks' = <<>>
    /\ windows' = <<>>
    /\ encode_calls' = 0
    /\ UNCHANGED << chunk_size, chunk_overlap, snap_in, snap_out >>
    /\ UNCHANGED << collection, points, uuids, served, request, calls >>
    /\ UNCHANGED peer

\* The vector the embedder returns for a text.
Embedding(t) == [of |-> t]

\* Whether the loop of embed_documents has a batch left.
MoreToEmbed == locals.embed_i < Len(locals.chunk_texts)

\* Step 3, embed_documents: one iteration of its loop, one embed_texts call.
EmbedBatch ==
    /\ hpc = "embed"
    /\ MoreToEmbed
    /\ LET documents == locals.chunk_texts
           i == locals.embed_i
           batch == PySlice(documents, i, i + embed_batch_size)
           batch_embeddings == [j \in 1..Len(batch) |-> Embedding(batch[j])]
       IN \E ok \in BOOLEAN :
            /\ calls' = Append(calls, Call("embed", ok))
            /\ IF ok
               THEN /\ locals' = [locals EXCEPT
                                    !.embeddings = locals.embeddings \o batch_embeddings,
                                    !.embed_i = i + embed_batch_size]
                    /\ UNCHANGED << hpc, response >>
               ELSE /\ response' = ProcessingError
                    /\ hpc' = "idle"
                    /\ locals' = NoLocals
    /\ UNCHANGED << collection, points, uuids, served, request >>
    /\ UNCHANGED chunkerVars
    /\ UNCHANGED peer

\* embed_documents returns all_embeddings.
EmbedReturn ==
    /\ hpc = "embed"
    /\ ~MoreToEmbed
    /\ hpc' = NextStep("upload", "embed")
    /\ UNCHANGED << collection, points, uuids, served, request, locals, calls,
                    response >>
    /\ UNCHANGED chunkerVars
    /\ UNCHANGED peer

\* ensure_collection, as upload (step 4) and query (step 2) call it.
EnsureCollection ==
    /\ hpc = "ensure"
    /\ \E ok \in BOOLEAN :
         /\ calls' = Append(calls, Call("ensure_collection", ok))
         /\ IF ok
            THEN /\ collection' = TRUE
                 /\ hpc' = NextStep(request.kind, "ensure")
                 /\ UNCHANGED << response, locals >>
            ELSE /\ response' = ProcessingError
                 /\ hpc' = "idle"
                 /\ locals' = NoLocals
                 /\ UNCHANGED collection
    /\ UNCHANGED << points, uuids, served, request >>
    /\ UNCHANGED chunkerVars
    /\ UNCHANGED peer

\* Chunks numbered from 1.
PointStruct_OneBased(document_id, filename, i, chunk, embedding, total) ==
    [ content |-> chunk, vector |-> embedding, document_id |-> document_id,
      filename |-> filename, chunk_index |-> i + 1, total_chunks |-> total,
      file_type |-> suffix_lower(filename) ]

\* The point of chunk i (from 0) of a document: its payload and vector, less
\* the upload date and the point's own id.
PointStruct(document_id, filename, i, chunk, embedding, total) ==
    [ content |-> chunk, vector |-> embedding, document_id |-> document_id,
      filename |-> filename, chunk_index |-> i, total_chunks |-> total,
      file_type |-> suffix_lower(filename) ]

\* store_chunks down to the batch loop: a fresh document id, and the points.
StoreChunksBegin ==
    /\ hpc = "store"
    /\ LET document_id == uuids + 1
           total_chunks == Len(locals.chunk_texts)
           zipped == Min({Len(locals.chunk_texts), Len(locals.embeddings)})
       IN /\ uuids' = document_id
          /\ locals' = [locals EXCEPT
                          !.document_id = document_id,
                          !.pending = [i \in 1..zipped |->
                              PointStruct(document_id, request.filename, i - 1,
                                           locals.chunk_texts[i], locals.embeddings[i],
                                           total_chunks)]]
    /\ hpc' = NextStep("upload", "store")
    /\ UNCHANGED << collection, points, served, request, calls, response >>
    /\ UNCHANGED chunkerVars
    /\ UNCHANGED peer

\* Only the first batch is sent.
MoreToUpsert_FirstBatch == locals.upsert_i = 0 /\ locals.pending # <<>>

\* Whether the batch loop of store_chunks has a batch left.
MoreToUpsert == locals.upsert_i < Len(locals.pending)

\* One iteration of the batch loop of store_chunks: one client.upsert.
UpsertBatch ==
    /\ hpc = "upsert"
    /\ MoreToUpsert
    /\ LET i == locals.upsert_i
           batch == PySlice(locals.pending, i, i + upsert_batch_size)
       IN \E ok \in BOOLEAN :
            LET returned == ok /\ collection
            IN /\ calls' = Append(calls, Call("upsert", returned))
               /\ IF returned
                  THEN /\ points' = points \o batch
                       /\ locals' = [locals EXCEPT !.upsert_i = i + upsert_batch_size]
                       /\ UNCHANGED << hpc, response >>
                  ELSE /\ response' = ProcessingError
                       /\ hpc' = "idle"
                       /\ locals' = NoLocals
                       /\ UNCHANGED points
    /\ UNCHANGED << collection, uuids, served, request >>
    /\ UNCHANGED chunkerVars
    /\ UNCHANGED peer

\* store_chunks returns document_id, and the handler answers 201.
UploadReturn ==
    /\ hpc = "upsert"
    /\ ~MoreToUpsert
    /\ response' = [ status |-> 201,
                     detail |-> "Document uploaded and processed successfully",
                     body |-> [ kind |-> "upload",
                                document_id |-> locals.document_id,
                                filename |-> request.filename,
                                total_chunks |-> Len(locals.chunk_texts) ] ]
    /\ hpc' = "idle"
    /\ locals' = NoLocals
    /\ UNCHANGED << collection, points, uuids, served, request, calls >>
    /\ UNCHANGED chunkerVars
    /\ UNCHANGED peer

\* query, step 1: the request arrives and embed_query is called.
QueryEmbed ==
    /\ hpc = "idle"
    /\ served < MaxRequests
    /\ \E top_k \in {0, 1}, ok \in BOOLEAN :
         /\ request' = [kind |-> "query", top_k |-> top_k]
         /\ calls' = << Call("embed_query", ok) >>
         /\ IF ok
            THEN /\ hpc' = NextStep("query", "embed_query")
                 /\ response' = NoResponse
            ELSE /\ hpc' = "idle"
                 /\ response' = [ status |-> 500, detail |-> "Failed to process query",
                                  body |-> ErrorBody ]
    /\ served' = served + 1
    /\ locals' = NoLocals
    /\ UNCHANGED << collection, points, uuids >>
    /\ UNCHANGED chunkerVars
    /\ UNCHANGED peer

\* What search returns for the stored points: at most top_k of them.
SearchHits(top_k) ==
    [ i \in 1..Min({top_k, Len(points)}) |->
        [ content |-> points[i].content, document_id |-> points[i].document_id,
          filename |-> points[i].filename, chunk_index |-> points[i].chunk_index ] ]

FallbackAnswer ==
    "I couldn't find any relevant documents to answer your question. Please upload some documents first."

\* The empty-result check left out.
NoCandidates_Never(search_results) == FALSE

\* if not search_results
NoCandidates(search_results) == search_results = <<>>

\* query, step 2: search, and the answer given when it finds nothing.
QuerySearch ==
    /\ hpc = "search"
    /\ \E ok \in BOOLEAN :
         LET returned == ok /\ collection
             search_results == SearchHits(search_top_k)
         IN /\ calls' = Append(calls, Call("search", returned))
            /\ IF ~returned
               THEN /\ response' = ProcessingError
                    /\ hpc' = "idle"
                    /\ UNCHANGED locals
               ELSE IF NoCandidates(search_results)
               THEN /\ response' = [ status |-> 200, detail |-> "",
                                     body |-> [ kind |-> "query",
                                                answer |-> FallbackAnswer,
                                                sources |-> <<>> ] ]
                    /\ hpc' = "idle"
                    /\ UNCHANGED locals
               ELSE /\ locals' = [locals EXCEPT !.search_results = search_results]
                    /\ hpc' = NextStep("query", "search")
                    /\ UNCHANGED response
    /\ UNCHANGED << collection, points, uuids, served, request >>
    /\ UNCHANGED chunkerVars
    /\ UNCHANGED peer

\* query, step 3: rerank, and the sources built from its results.
QueryRerank ==
    /\ hpc = "rerank"
    /\ \E ok \in BOOLEAN :
         LET top_k == IF request.top_k # 0 THEN request.top_k ELSE rerank_top_k
             kept == Min({top_k, Len(locals.search_results)})
         IN /\ calls' = Append(calls, Call("rerank", ok))
            /\ IF ok
               THEN /\ locals' = [locals EXCEPT
                                    !.sources = [i \in 1..kept |-> locals.search_results[i]]]
                    /\ hpc' = NextStep("query", "rerank")
                    /\ UNCHANGED response
               ELSE /\ response' = ProcessingError
                    /\ hpc' = "idle"
                    /\ locals' = NoLocals
    /\ UNCHANGED << collection, points, uuids, served, request >>
    /\ UNCHANGED chunkerVars
    /\ UNCHANGED peer

\* query, step 4: generate_answer, and the response.
QueryGenerate ==
    /\ hpc = "generate"
    /\ \E ok \in BOOLEAN :
         /\ calls' = Append(calls, Call("generate_answer", ok))
         /\ response' = IF ok
                        THEN [ status |-> 200, detail |-> "",
                               body |-> [ kind |-> "query", answer |-> "generated",
                                          sources |-> locals.sources ] ]
                        ELSE ProcessingError
    /\ hpc' = "idle"
    /\ locals' = NoLocals
    /\ UNCHANGED << collection, points, uuids, served, request >>
    /\ UNCHANGED chunkerVars
    /\ UNCHANGED peer

\* The points a document_id filter matches.
Matching(document_id) ==
    {i \in 1..Len(points) : points[i].document_id = document_id}

\* delete_document: the request arrives and client.count is called.
DeleteCount ==
    /\ hpc = "idle"
    /\ served < MaxRequests
    /\ \E document_id \in 0..uuids, ok \in BOOLEAN :
         LET returned == ok /\ collection
         IN /\ request' = [kind |-> "delete", document_id |-> document_id]
            /\ calls' = << Call("count", returned) >>
            /\ IF returned
               THEN /\ locals' = [NoLocals EXCEPT
                                    !.chunks_to_delete = Cardinality(Matching(document_id))]
                    /\ hpc' = NextStep("delete", "count")
                    /\ response' = NoResponse
               ELSE /\ locals' = NoLocals
                    /\ hpc' = "idle"
                    /\ response' = [ status |-> 500,
                                     detail |-> "Failed to delete document",
                                     body |-> ErrorBody ]
    /\ served' = served + 1
    /\ UNCHANGED << collection, points, uuids >>
    /\ UNCHANGED chunkerVars
    /\ UNCHANGED peer

\* The points left by client.delete with the document_id filter.
WithoutDocument(document_id) ==
    SelectSeq(points, LAMBDA p : p.document_id # document_id)

\* The handler's answer once VectorStoreService.delete_document returned.
DeleteResponse(document_id, chunks_deleted) ==
    IF chunks_deleted = 0
    THEN HTTPException(404, "Document not found")
    ELSE [ status |-> 200,
           detail |-> "Document deleted successfully",
           body |-> [ kind |-> "delete",
                      document_id |-> document_id,
                      chunks_deleted |-> chunks_deleted ] ]

\* delete_document: client.delete by filter, and the handler's answer.
DeletePoints ==
    /\ hpc = "delete"
    /\ \E ok \in BOOLEAN :
         LET returned == ok /\ collection
             chunks_deleted == locals.chunks_to_delete
         IN /\ calls' = Append(calls, Call("delete", returned))
            /\ IF ~returned
               THEN /\ response' = ProcessingError
                    /\ UNCHANGED points
               ELSE /\ points' = WithoutDocument(request.document_id)
                    /\ response' = DeleteResponse(request.document_id, chunks_deleted)
    /\ hpc' = "idle"
    /\ locals' = NoLocals
    /\ UNCHANGED << collection, uuids, served, request >>
    /\ UNCHANGED chunkerVars
    /\ UNCHANGED peer

\* chunk_text is never entered with blank text here (upload_document has
\* rejected it), so its empty-input return is no step of the service.
NextApi ==
    \/ Lifespan
    \/ UploadValidate \/ UploadParse
    \/ ReturnSingle \/ EnterLoop \/ LoopIteration \/ LoopExit
    \/ UploadChunked \/ EmbedBatch \/ EmbedReturn \/ EnsureCollection
    \/ StoreChunksBegin \/ UpsertBatch \/ UploadReturn
    \/ QueryEmbed \/ QuerySearch \/ QueryRerank \/ QueryGenerate
    \/ DeleteCount \/ DeletePoints

SpecApi == InitApi /\ [][NextApi]_vars

(***************************************************************************)
(* Two handlers at once.  A second DELETE is handled while the first       *)
(* handler is between two of its collaborator calls: by another task, as   *)
(* the specification schedules handlers, or by another worker process of   *)
(* the service, the store being the one Qdrant server.  Each call on the   *)
(* store is atomic; the second handler serves one request.                 *)
(***************************************************************************)
DeleteFailed ==
    [ status |-> 500, detail |-> "Failed to delete document", body |-> ErrorBody ]

\* The second handler's delete_document: the request arrives, client.count.
PeerDeleteCount ==
    /\ hpc \notin {"off", "boot"}
    /\ peer = NoPeer
    /\ \E document_id \in 0..uuids, ok \in BOOLEAN :
         LET returned == ok /\ collection
             req == [kind |-> "delete", document_id |-> document_id]
         IN peer' = IF returned
                    THEN [ hpc |-> NextStep("delete", "count"), request |-> req,
                           chunks_to_delete |-> Cardinality(Matching(document_id)),
                           response |-> NoResponse ]
                    ELSE [ hpc |-> "done", request |-> req, chunks_to_delete |-> 0,
                           response |-> DeleteFailed ]
    /\ UNCHANGED << hpc, collection, points, uuids, served, request, locals, calls,
                    response >>
    /\ UNCHANGED chunkerVars

\* The second handler's delete_document: client.delete, and the answer.
PeerDeletePoints ==
    /\ peer.hpc = "delete"
    /\ \E ok \in BOOLEAN :
         LET returned == ok /\ collection
             document_id == peer.request.document_id
         IN IF returned
            THEN /\ points' = WithoutDocument(document_id)
                 /\ peer' = [peer EXCEPT
                               !.hpc = "done",
                               !.response = DeleteResponse(document_id,
                                                           peer.chunks_to_delete)]
            ELSE /\ peer' = [peer EXCEPT !.hpc = "done", !.response = DeleteFailed]
                 /\ UNCHANGED points
    /\ UNCHANGED << hpc, collection, uuids, served, request, locals, calls,
                    response >>
    /\ UNCHANGED chunkerVars

NextConc == NextApi \/ PeerDeleteCount \/ PeerDeletePoints

SpecConc == InitApi /\ [][NextConc]_vars

(***************************************************************************)
(* The claims.  S, O and T are the spec's names for chunk_size,            *)
(* chunk_overlap and the token count of the normalized text.               *)
(***************************************************************************)
Looping == pc \in {"loop", "done"} /\ windows # <<>>

\* The cursor after the k-th iteration.
StartAfter(k) == IF k < Len(windows) THEN windows[k + 1].start ELSE start

\* C1: with 0 <= O < S the sliding-window loop terminates: the cursor strictly
\* increases on every iteration, by S - O after a non-final window and to T
\* after the final one, so the loop runs at most T times; it is never the
\* model's cut that stops it, and it returns with the cursor at T.
C1_CursorAdvances ==
    (pc \in {"loop", "done"} /\ total_tokens > chunk_size
                             /\ chunk_overlap < chunk_size) =>
        /\ \A k \in 1..Len(windows) :
              /\ StartAfter(k) > windows[k].start
              /\ StartAfter(k) = IF windows[k].end < total_tokens
                                 THEN windows[k].start + (chunk_size - chunk_overlap)
                                 ELSE total_tokens
        /\ start <= total_tokens
        /\ Len(windows) <= total_tokens
        /\ (pc = "loop" /\ start < total_tokens => Len(chunks) < MaxChunks)
        /\ (pc = "done" => start = total_tokens)

C1_Witness ==
    /\ pc = "done"
    /\ chunk_overlap = 1
    /\ chunk_size = 2
    /\ Len(windows) >= 4

\* C2: when T > S and 0 <= O < S the windows begin at 0, end at T, and each
\* starts at or before the end of the one before it, so every token position
\* in [0, T) lies in at least one window.
C2_FullCoverage ==
    (pc = "done" /\ total_tokens > chunk_size /\ chunk_overlap < chunk_size) =>
        /\ windows # <<>>
        /\ windows[1].start = 0
        /\ windows[Len(windows)].end = total_tokens
        /\ \A k \in 1..(Len(windows) - 1) : windows[k + 1].start <= windows[k].end
        /\ \A p \in 0..(total_tokens - 1) :
              \E k \in 1..Len(windows) : windows[k].start <= p /\ p < windows[k].end

C2_Witness ==
    /\ pc = "done"
    /\ chunk_overlap = 0
    /\ chunk_size = 3
    /\ Len(windows) = 3
    /\ total_tokens = 8

\* The windows of the loop for a text of `total` tokens, from cursor s on.
RECURSIVE Slide(_, _, _, _)
Slide(s, size, overlap, total) ==
    IF ~(s < total) THEN <<>>
    ELSE LET e == WindowEnd(s, size, total)
         IN << << s, e >> >> \o Slide(NextStart(e, overlap, total), size, overlap, total)

\* C3: when T > S and 0 <= O < S the k-th window (k = 0, 1, ...) is
\* [k*(S-O), min(k*(S-O)+S, T)), the last window is the first whose end is T,
\* and consecutive windows overlap by exactly O tokens; S=1000, O=100, T=2500
\* gives the three windows [0,1000), [900,1900), [1800,2500).
C3_WindowArithmetic ==
    /\ (Looping /\ chunk_overlap < chunk_size) =>
          /\ \A k \in 1..Len(windows) :
                /\ windows[k].start = (k - 1) * (chunk_size - chunk_overlap)
                /\ windows[k].end =
                      IF (k - 1) * (chunk_size - chunk_overlap) + chunk_size < total_tokens
                      THEN (k - 1) * (chunk_size - chunk_overlap) + chunk_size
                      ELSE total_tokens
                /\ k < Len(windows) =>
                      /\ windows[k].end < total_tokens
                      /\ windows[k].end - windows[k + 1].start = chunk_overlap
          /\ (pc = "done" => windows[Len(windows)].end = total_tokens)
          /\ Len(chunks) = Len(windows)
    /\ Slide(0, 1000, 100, 2500) = << << 0, 1000 >>, << 900, 1900 >>, << 1800, 2500 >> >>

\* The example scaled to the model: S=3, O=1, T=6 gives [0,3), [2,5), [4,6).
C3_Witness ==
    /\ pc = "done"
    /\ chunk_size = 3
    /\ chunk_overlap = 1
    /\ total_tokens = 6
    /\ Len(chunks) = 3
    /\ windows[3].start = 4
    /\ windows[3].end = 6

\* C4: a non-blank text whose normalized token count T is at most S yields
\* exactly one chunk, with index 0, the whole normalized text as content, and
\* token_count T.
C4_SingleChunk ==
    (pc = "done" /\ Strip(input) # <<>>
                 /\ Len(encode(clean_text(input))) <= chunk_size) =>
        /\ Len(chunks) = 1
        /\ chunks[1].index = 0
        /\ chunks[1].content = clean_text(input)
        /\ chunks[1].token_count = Len(encode(clean_text(input)))

C4_Witness ==
    /\ pc = "done"
    /\ Len(chunks) = 1
    /\ windows = <<>>
    /\ chunks[1].content # input
    /\ chunks[1].token_count = 3
    /\ Len(chunks[1].content) > 3

\* C5: an empty or whitespace-only input returns the empty sequence, and the
\* tokenizer is not invoked.
C5_EmptyInput ==
    (Strip(input) = <<>> /\ pc # "call") =>
        /\ pc = "done"
        /\ chunks = <<>>
        /\ encode_calls = 0

C5_Witness ==
    /\ pc = "done"
    /\ input # <<>>
    /\ Strip(input) = <<>>
    /\ chunks = <<>>

C7_TokenCountOfContent ==
    \A k \in 1..Len(chunks) : chunks[k].token_count = Len(encode(chunks[k].content))

\* C8: the i-th chunk (from 0) of the returned list has index i.
C8_ContiguousIndices ==
    \A k \in 1..Len(chunks) : chunks[k].index = k - 1

C8_Witness ==
    /\ pc = "done"
    /\ Len(chunks) >= 5
    /\ chunks[5].index = 4

\* Whether a sentence terminator starts in the last 20% of t: at a (1-based)
\* index j with j > 0.8 * len(t).
TerminatorInTail(t) ==
    \E j \in 1..Len(t) : 5 * j > 4 * Len(t) /\ t[j] \in {".", "!", "?"}

\* C9: _adjust_to_sentence_boundary(t) is a prefix of t, so no longer than t,
\* and it is t itself when no terminator occurs in the last 20% of t.
C9_SnapIsPrefix ==
    pc = "snapped" =>
        /\ Len(snap_out) <= Len(snap_in)
        /\ snap_out = SubSeq(snap_in, 1, Len(snap_out))
        /\ (~TerminatorInTail(snap_in) => snap_out = snap_in)

C9_Witness ==
    /\ pc = "snapped"
    /\ Len(snap_in) = 6
    /\ Len(snap_out) = 5
    /\ TerminatorInTail(snap_in)

\* How many characters of the normalized text precede the k-th window.
CharsBefore(k) == Len(decode(PySlice(tokens, 0, windows[k].start)))

\* The c-th character of the normalized text is kept by some chunk: it lies
\* in the part of a window's text that the chunk retains.  A whitespace
\* character counts as kept.
CharKept(c) ==
    \/ text[c] \in Spaces
    \/ \E k \in 1..Len(windows) :
          /\ CharsBefore(k) < c
          /\ c <= CharsBefore(k) + Len(windows[k].chunk_text)

\* C10: whatever snapping discards from a chunk reappears in the following
\* window, so every token of the normalized document is in the content of at
\* least one returned chunk.
C10_NoTextLost ==
    (pc = "done" /\ windows # <<>> /\ chunk_overlap < chunk_size) =>
        \A c \in 1..Len(text) : CharKept(c)

(***************************************************************************)
(* The claims about the service, under SpecApi.                            *)
(***************************************************************************)
Invoked(op) == \E i \in DOMAIN calls : calls[i].op = op

CountCalls(op) == Cardinality({i \in DOMAIN calls : calls[i].op = op})

\* How many batches of `size` a list of n items makes.
Batches(n, size) == (n + size - 1) \div size

\* No collaborator was called for the request and the handler has answered.
RefusedUntouched == calls = <<>> /\ pc = "idle" /\ hpc = "idle"

\* C11: an upload with an extension outside the allowed list is answered 400
\* 'not supported', an empty file with an allowed extension a different 400
\* 'empty', an oversized one 413; in each case the parser, the chunker, the
\* embedder and the vector store were not called for the request.
C11_ValidationFirst ==
    request.kind = "upload" /\ request.filename # "" =>
        LET extension == suffix_lower(request.filename)
        IN /\ extension \notin allowed_extensions =>
                /\ response.status = 400
                /\ response.detail = "File type not supported"
                /\ RefusedUntouched
           /\ extension \in allowed_extensions /\ request.size = 0 =>
                /\ response.status = 400
                /\ response.detail = "Uploaded file is empty"
                /\ response.detail # "File type not supported"
                /\ RefusedUntouched
           /\ extension \in allowed_extensions /\ request.size > max_size =>
                /\ response.status = 413
                /\ RefusedUntouched

\* An empty .pdf is refused as empty while the store holds an earlier document.
C11_Witness ==
    /\ request.kind = "upload"
    /\ request.filename = "Test.PDF"
    /\ request.size = 0
    /\ response.status = 400
    /\ response.detail = "Uploaded file is empty"
    /\ points # <<>>

\* C12: when the search of a query returns no candidates, the answer is 200
\* with the fixed fallback text and no sources, and neither the reranker nor
\* the answer generator was called.
C12_EmptySearchFallback ==
    /\ request.kind = "query"
    /\ \E i \in DOMAIN calls : calls[i] = Call("search", TRUE)
    /\ points = <<>>
    => /\ hpc = "idle"
       /\ response.status = 200
       /\ response.body.answer = FallbackAnswer
       /\ response.body.sources = <<>>
       /\ ~Invoked("rerank")
       /\ ~Invoked("generate_answer")

\* A query answered from an empty collection, after an earlier request.
C12_Witness ==
    /\ request.kind = "query"
    /\ calls = << Call("embed_query", TRUE), Call("ensure_collection", TRUE),
                  Call("search", TRUE) >>
    /\ response.status = 200
    /\ response.body.sources = <<>>
    /\ served = 2

\* A step that ends a delete request.
DeleteAnswered ==
    /\ request'.kind = "delete"
    /\ hpc' = "idle"
    /\ hpc = "delete" \/ served' # served

\* C13: in every state of the store, also with the collection never
\* created, a delete of an id matching no point is answered 404, and a delete
\* of an id matching n > 0 points is answered 200 with chunks_deleted = n and
\* leaves no point of that id (the store answering whenever it can).
C13_DeleteAbsent ==
    [][ DeleteAnswered /\ (~collection \/ \A i \in DOMAIN calls' : calls'[i].ok) =>
            LET n == Cardinality(Matching(request'.document_id))
            IN IF n = 0
               THEN response'.status = 404
               ELSE /\ response'.status = 200
                    /\ response'.body.chunks_deleted = n
                    /\ \A i \in DOMAIN points' :
                         points'[i].document_id # request'.document_id ]_vars

\* C14: an upload is answered 201 only with every chunk embedded and every
\* batch upserted; a failed parse, embed, ensure_collection or upsert is the
\* last call of the request, which is answered 500.
C14_AllOrFail ==
    request.kind = "upload" =>
        /\ response.status = 201 =>
             LET n == response.body.total_chunks
                 stored == Matching(response.body.document_id)
             IN /\ n > 0
                /\ \A i \in DOMAIN calls : calls[i].ok
                /\ CountCalls("embed") = Batches(n, embed_batch_size)
                /\ CountCalls("upsert") = Batches(n, upsert_batch_size)
                /\ Cardinality(stored) = n
                /\ \A i \in stored : points[i].vector = Embedding(points[i].content)
        /\ \A i \in DOMAIN calls : ~calls[i].ok =>
             /\ i = Len(calls)
             /\ calls[i].op \in {"parse", "embed", "ensure_collection", "upsert"}
             /\ response.status = 500
             /\ hpc = "idle"

\* A document of several embedding batches and several upsert batches is stored.
C14_Witness ==
    /\ request.kind = "upload"
    /\ response.status = 201
    /\ CountCalls("embed") >= 2
    /\ CountCalls("upsert") >= 2

(***************************************************************************)
(* The claims about the helpers of the chunker.                            *)
(***************************************************************************)
\* Whether terminator e occurs in t at characters i+1 .. i+Len(e).
OccursAt(t, e, i) == i + Len(e) <= Len(t) /\ SubSeq(t, i + 1, i + Len(e)) = e

\* Where the occurrences of the terminators in the last 20% of t end.
TerminatorEnds(t) ==
    { j \in 0..Len(t) :
        \E i \in Cutoff(Len(t))..Len(t), k \in DOMAIN sentence_endings :
           /\ OccursAt(t, sentence_endings[k], i)
           /\ j = i + Len(sentence_endings[k]) }

\* C15: _adjust_to_sentence_boundary cuts the text right after the terminator
\* occurrence of its last 20% that ends furthest to the right, the whole
\* terminator kept (a '.\n' with its newline); without one the text is kept.
C15_SnapSelection ==
    pc = "snapped" =>
        snap_out = IF TerminatorEnds(snap_in) = {}
                   THEN snap_in
                   ELSE SubSeq(snap_in, 1, Max(TerminatorEnds(snap_in)))

\* C16: the output of _clean_text has no run of three or more newlines, no
\* run of two or more spaces, no control character and no white space at
\* either end, and cleaning it again changes nothing.
C16_CleanIsNormal ==
    pc = "cleaned" =>
        /\ \A i \in 1..Len(text) : text[i] = "\n" => RunLen(text, i, {"\n"}) < 3
        /\ \A i \in 1..Len(text) : text[i] = " " => RunLen(text, i, {" "}) < 2
        /\ \A i \in 1..Len(text) : text[i] \notin Controls
        /\ Strip(text) = text
        /\ clean_text(text) = text

(***************************************************************************)
(* More claims about chunk_text, under Spec.                               *)
(***************************************************************************)
\* C17: for every chunk size and overlap, O >= S included, chunk_text does
\* not stall: no window is emitted whose start is not greater than the start
\* of the window before it, and the loop ends by itself.
C17_StallGuard ==
    pc \in {"loop", "done"} =>
        /\ \A k \in 2..Len(windows) : windows[k].start > windows[k - 1].start
        /\ (pc = "loop" /\ start < total_tokens => Len(chunks) < MaxChunks)

\* C18: every chunk chunk_text returns or has collected has non-empty content.
C18_NonEmptyContent ==
    \A i \in 1..Len(chunks) : chunks[i].content # <<>>

(***************************************************************************)
(* More claims about the service, under SpecApi.                           *)
(***************************************************************************)
\* The points stored under a document id, in upsert order.
PointsOf(document_id) == SelectSeq(points, LAMBDA p : p.document_id = document_id)

\* C19: after an upload answered 201, the points stored under the returned
\* document_id are as many as the response's total_chunks, each carries that
\* total_chunks, and their chunk_index values are 0..total_chunks-1 in order.
C19_PointsMatchResponse ==
    request.kind = "upload" /\ response.status = 201 =>
        LET n == response.body.total_chunks
            mine == PointsOf(response.body.document_id)
        IN /\ Len(mine) = n
           /\ \A i \in 1..Len(mine) :
                /\ mine[i].total_chunks = n
                /\ mine[i].chunk_index = i - 1

\* A second document, of three or more chunks, is stored beside the first.
C19_Witness ==
    /\ request.kind = "upload"
    /\ response.status = 201
    /\ response.body.total_chunks >= 3
    /\ response.body.document_id = 2
    /\ PointsOf(1) # <<>>

StoreOps == {"ensure_collection", "upsert", "search", "count", "delete"}

NoStoreOp == \A i \in DOMAIN calls : calls[i].op \notin StoreOps

\* An upload refused by validation, or failed in parsing, at the blank-text
\* check, in chunking or in embedding.
FailedBeforeStore ==
    /\ request.kind = "upload"
    /\ hpc = "idle"
    /\ response.status \in {400, 413, 500}
    /\ calls # <<>> => calls[Len(calls)].op \in {"parse", "chunk_text", "embed"}

\* C20: an upload that fails in validation, parsing, the blank-text check,
\* chunking or embedding has called no vector-store operation, and no step of
\* an upload that has called none changes the collection or its points.
C20_FailedUploadFrame ==
    [][ request'.kind = "upload" =>
          /\ FailedBeforeStore' => NoStoreOp'
          /\ NoStoreOp' => points' = points /\ collection' = collection ]_vars

\* The second embedding batch fails while the store holds an earlier document.
C20_Witness ==
    /\ FailedBeforeStore
    /\ calls # <<>>
    /\ calls[Len(calls)] = Call("embed", FALSE)
    /\ CountCalls("embed") = 2
    /\ points # <<>>

\* C22: text that passes the blank-text check of upload_document is never
\* blank for chunk_text, which then returns at least one chunk: no upload is
\* answered 400 'Document produced no valid chunks'.
C22_ZeroChunksUnreachable ==
    /\ hpc = "chunk" /\ pc = "call" => ~IsBlank(input)
    /\ hpc = "chunk" /\ pc = "done" => chunks # <<>>
    /\ response.detail # "Document produced no valid chunks"

\* Text of one control character passes the check and comes back as a chunk.
C22_Witness ==
    /\ hpc = "chunk"
    /\ pc = "done"
    /\ input = << NUL >>
    /\ Len(chunks) = 1

====
